---- MODULE Spec2Model ----
(***************************************************************************)
(* pingbot_v2: ping scheduling (participant_facing.py: random_time,        *)
(* make_pings), the due-ping queries with row locking (crud.py:            *)
(* get_pings_to_send, get_pings_for_reminder), the soft-delete-aware CRUD  *)
(* layer (crud.py), the bot endpoints (bot.py: link_telegram_id,           *)
(* unenroll) and the signup endpoint (participant_facing.py:               *)
(* study_signup), the last two also as concurrent requests.                *)
(*                                                                         *)
(* Timestamps are whole seconds since an epoch (UTC instants).  A date is  *)
(* a day number since the same epoch.                                      *)
(***************************************************************************)
EXTENDS Integers, Sequences, FiniteSets, TLC

VARIABLES
    clock,        \* the wall clock, datetime.now(timezone.utc)
    import_now,   \* the value bound to the default argument `now` when crud.py was imported
    studies,      \* table studies:        id -> row
    enrollments,  \* table enrollments:    id -> row
    templates,    \* table ping_templates: id -> row
    pings,        \* table pings: sequence of rows, the id is the index
    sw,           \* the sweepers: position, open transaction, rows returned
    handed,       \* ping id -> number of times the ping was handed to delivery
    rt,           \* the last random_time call: arguments and result
    mp,           \* the last make_pings call: arguments, pings built, result
    users,        \* table users:          id -> row
    user_studies, \* table user_studies:   id -> row (a hard delete removes the id)
    user_studies_id_seq,  \* the last id the autoincrement of user_studies gave out
    supports,     \* table support:        id -> row
    last,         \* the last crud.py / bot.py call: arguments, result, tables before it
    web           \* the HTTP requests being served: position in the handler, locals

crudvars == <<users, user_studies, user_studies_id_seq, supports, last, web>>

vars == <<clock, import_now, studies, enrollments, templates, pings, sw, handed, rt, mp,
          crudvars>>

------------------------------------------------------------------------------
(* Bounds of the model *)

MaxPings == 2
MaxStep == 1
MaxUserStudies == 4
MaxEnrollments == 4

------------------------------------------------------------------------------
(* Values *)

\* SQL NULL / Python None in a timestamp, id or text column (all real values are >= 0)
NULL == -1

SecondsPerMinute == 60
SecondsPerDay == 86400

AcceptableDelayMinutes == 15

\* current_app.config["TELEGRAM_LINK_CODE_EXPIRY_DAYS"]
TelegramLinkCodeExpiryDays == 1

\* crud.py:946  timedelta(minutes=15)
acceptable_delay == AcceptableDelayMinutes * SecondsPerMinute

PingIds == 1..MaxPings
Sweepers == {1, 2}

StudyIds == {1, 2}
EnrollmentIds == {1, 2}
TemplateIds == {1, 2}
UserIds == {1, 2}

------------------------------------------------------------------------------
(* models.py and the columns crud.py queries *)

\* kwargs.get(col, default)
Get(kw, col, default) == IF col \in DOMAIN kw THEN kw[col] ELSE default

\* Ping(**kwargs): a column that is not given takes its default (False for the
\* two flags, models.py:223-224) or stays NULL.  An unknown keyword is a TypeError.
Ping(kw) ==
    [study_id         |-> Get(kw, "study_id", NULL),
     ping_template_id |-> Get(kw, "ping_template_id", NULL),
     enrollment_id    |-> Get(kw, "enrollment_id", NULL),
     scheduled_ts     |-> Get(kw, "scheduled_ts", NULL),
     expire_ts        |-> Get(kw, "expire_ts", NULL),
     reminder_ts      |-> Get(kw, "reminder_ts", NULL),
     ping_sent        |-> Get(kw, "ping_sent", FALSE),
     reminder_sent    |-> Get(kw, "reminder_sent", FALSE),
     day_num          |-> Get(kw, "day_num", NULL),
     message          |-> Get(kw, "message", NULL),
     url              |-> Get(kw, "url", NULL),
     sent_ts          |-> Get(kw, "sent_ts", NULL),
     reminder_sent_ts |-> Get(kw, "reminder_sent_ts", NULL),
     first_clicked_ts |-> Get(kw, "first_clicked_ts", NULL),
     deleted_at       |-> Get(kw, "deleted_at", NULL)]

\* the nullable=False columns of Ping without a default: the INSERT of a row
\* that leaves one of them NULL is rejected (IntegrityError at flush).
PingInsertAccepted(row) ==
    /\ row.study_id # NULL
    /\ row.ping_template_id # NULL
    /\ row.enrollment_id # NULL
    /\ row.scheduled_ts # NULL
    /\ row.day_num # NULL
    /\ row.message # NULL

------------------------------------------------------------------------------
(* crud.py: the due-ping queries *)

\* the row locks a sweeper's open transaction holds: with_for_update() without
\* of= locks, for every row the SELECT returns, the row of each joined table.
LockedPings(s) == sw[s].batch
LockedEnrollments(s) == {pings[q].enrollment_id : q \in sw[s].batch}
LockedStudies(s) == {pings[q].study_id : q \in sw[s].batch}
LockedTemplates(s) == {pings[q].ping_template_id : q \in sw[s].batch}

\* the ping row itself is locked by another transaction
PingRowLocked(p, s) == \E o \in Sweepers \ {s} : p \in LockedPings(o)

\* NoSkipLocked: the query without its locking clause
NoSkipLocked(p, s) == FALSE

\* with_for_update(skip_locked=True): the joined row (ping, enrollment, study,
\* template) is skipped when another transaction holds a lock on any of its rows.
skip_locked(p, s) ==
    \E o \in Sweepers \ {s} :
        \/ p \in LockedPings(o)
        \/ pings[p].enrollment_id \in LockedEnrollments(o)
        \/ pings[p].study_id \in LockedStudies(o)
        \/ pings[p].ping_template_id \in LockedTemplates(o)

\* mutant of JoinActive: the three inner joins alone
JoinOnly(r) ==
    /\ r.enrollment_id \in DOMAIN enrollments
    /\ r.study_id \in DOMAIN studies
    /\ r.ping_template_id \in DOMAIN templates

\* the three inner joins and the soft-delete / enrolled conditions both queries share
JoinActive(r) ==
    /\ r.enrollment_id \in DOMAIN enrollments
    /\ r.study_id \in DOMAIN studies
    /\ r.ping_template_id \in DOMAIN templates
    /\ r.deleted_at = NULL
    /\ templates[r.ping_template_id].deleted_at = NULL
    /\ enrollments[r.enrollment_id].deleted_at = NULL
    /\ enrollments[r.enrollment_id].enrolled
    /\ studies[r.study_id].deleted_at = NULL

\* mutants of the WHERE clause of get_pings_to_send
SendWhereNoTolerance(r, now) ==
    /\ r.sent_ts = NULL
    /\ r.scheduled_ts <= now
    /\ (r.expire_ts = NULL \/ r.expire_ts > now)
    /\ JoinActive(r)

SendWhereNoSentCheck(r, now) ==
    /\ r.scheduled_ts <= now
    /\ r.scheduled_ts >= now - acceptable_delay
    /\ (r.expire_ts = NULL \/ r.expire_ts > now)
    /\ JoinActive(r)

SendWhereNoExpiry(r, now) ==
    /\ r.sent_ts = NULL
    /\ r.scheduled_ts <= now
    /\ r.scheduled_ts >= now - acceptable_delay
    /\ JoinActive(r)

\* the WHERE clause of get_pings_to_send
SendWhere(r, now) ==
    /\ r.sent_ts = NULL
    /\ r.scheduled_ts <= now
    /\ r.scheduled_ts >= now - acceptable_delay
    /\ (r.expire_ts = NULL \/ r.expire_ts > now)
    /\ JoinActive(r)

\* mutant of the WHERE clause of get_pings_for_reminder: unsent pings too
ReminderWhereNoSentCheck(r, now) ==
    /\ r.reminder_sent_ts = NULL
    /\ r.reminder_ts # NULL /\ r.reminder_ts <= now
    /\ (r.expire_ts = NULL \/ r.expire_ts > now)
    /\ r.first_clicked_ts = NULL
    /\ JoinActive(r)

\* the WHERE clause of get_pings_for_reminder (a comparison with NULL is not true)
ReminderWhere(r, now) ==
    /\ r.sent_ts # NULL
    /\ r.reminder_sent_ts = NULL
    /\ r.reminder_ts # NULL /\ r.reminder_ts <= now
    /\ (r.expire_ts = NULL \/ r.expire_ts > now)
    /\ r.first_clicked_ts = NULL
    /\ JoinActive(r)

get_pings_to_send(now, s) ==
    {p \in 1..Len(pings) : SendWhere(pings[p], now) /\ ~skip_locked(p, s)}

get_pings_for_reminder(now, s) ==
    {p \in 1..Len(pings) : ReminderWhere(pings[p], now) /\ ~skip_locked(p, s)}

------------------------------------------------------------------------------
(* The tables *)

\* models.py:138-159; code is unique (models.py:144)
Study(code) ==
    [public_name |-> 1, internal_name |-> 1, code |-> code, contact_message |-> 1,
     deleted_at |-> NULL]

\* models.py:16-42; a new enrollment has no telegram id and no link code
Enrollment(study_id, tz, start_date) ==
    [study_id |-> study_id, tz |-> tz, start_date |-> start_date, study_pid |-> 1,
     enrolled |-> TRUE, pr_completed |-> 0,
     telegram_id |-> NULL, telegram_link_code |-> NULL,
     telegram_link_code_expire_ts |-> NULL, telegram_link_code_used |-> FALSE,
     deleted_at |-> NULL]

\* werkzeug's generate_password_hash: the stored value is not the password
generate_password_hash(password) == <<"hash", password>>

\* models.py:95-107; email is unique (models.py:99)
User(email) ==
    [email |-> email, password |-> generate_password_hash(1), first_name |-> 1, last_name |-> 1,
     institution |-> 1, prolific_token |-> 1, deleted_at |-> NULL]

\* models.py:68-76
UserStudy(user_id, study_id, role) ==
    [user_id |-> user_id, study_id |-> study_id, role |-> role, deleted_at |-> NULL]

\* crud.py:1179-1185  Support(user_id=, email=, messages=, query_type=, is_urgent=)
Support(user_id, is_urgent) ==
    [user_id |-> user_id, email |-> 1, messages |-> 1, query_type |-> 1,
     is_urgent |-> is_urgent, resolved |-> FALSE, notes |-> NULL, deleted_at |-> NULL]

PingTemplate(study_id, schedule, reminder_latency, expire_latency) ==
    [study_id |-> study_id, schedule |-> schedule, name |-> 1, message |-> 1, url |-> 1,
     url_text |-> 1,
     reminder_latency |-> reminder_latency, expire_latency |-> expire_latency,
     deleted_at |-> NULL]

IdleSweeper ==
    [pc |-> "idle", now |-> 0, used_default |-> FALSE,
     batch |-> {}, missed_due |-> {}, missed_unlocked |-> {}]

NoCall == [called |-> FALSE]

\* the requests the web server serves at the same time (one per worker)
Requests == {1, 2}
IdleRequest == [pc |-> "idle"]

InitSweep ==
    /\ clock = 0
    /\ import_now = 0
    /\ pings = <<>>
    /\ sw = [s \in Sweepers |-> IdleSweeper]
    /\ handed = [p \in PingIds |-> 0]
    /\ rt = NoCall
    /\ mp = NoCall
    /\ users = [i \in UserIds |-> User(i)]
    /\ user_studies = <<>>
    /\ user_studies_id_seq = 0
    /\ supports = <<>>
    /\ last = NoCall
    /\ web = [r \in Requests |-> IdleRequest]

Init ==
    /\ InitSweep
    /\ studies = [i \in StudyIds |-> Study(i)]
    /\ enrollments = (1 :> Enrollment(1, "UTC", 1)) @@ (2 :> Enrollment(2, "UTC", 1))
    /\ templates = (1 :> PingTemplate(1, <<>>, 1, SecondsPerMinute))
                        @@ (2 :> PingTemplate(2, <<>>, 1, SecondsPerMinute))

------------------------------------------------------------------------------
(* crud.py: the getters.  A getter returns ids (the ORM objects of the rows); *)
(* NULL stands for None.                                                      *)

\* mutant of include_deleted_records: no filter at all
IncludeAlways(row, include_deleted) == TRUE

\* crud.py:21-35  the filter include_deleted_records adds to a query on `row`
include_deleted_records(row, include_deleted) ==
    include_deleted \/ row.deleted_at = NULL

\* result.scalar_one_or_none() of a query that matches at most one row
scalar_one_or_none(matches) ==
    IF matches = {} THEN NULL ELSE CHOOSE i \in matches : TRUE

\* crud.py:38-59
get_user_by_id(user_id, include_deleted) ==
    scalar_one_or_none({i \in DOMAIN users :
        i = user_id /\ include_deleted_records(users[i], include_deleted)})

\* crud.py:237-258
get_study_by_id(study_id, include_deleted) ==
    scalar_one_or_none({i \in DOMAIN studies :
        i = study_id /\ include_deleted_records(studies[i], include_deleted)})

\* crud.py:596-617
get_enrollment_by_id(enrollment_id, include_deleted) ==
    scalar_one_or_none({i \in DOMAIN enrollments :
        i = enrollment_id /\ include_deleted_records(enrollments[i], include_deleted)})

\* crud.py:789-810
get_ping_template_by_id(template_id, include_deleted) ==
    scalar_one_or_none({i \in DOMAIN templates :
        i = template_id /\ include_deleted_records(templates[i], include_deleted)})

\* crud.py:909-930
get_ping_by_id(ping_id, include_deleted) ==
    scalar_one_or_none({i \in DOMAIN pings :
        i = ping_id /\ include_deleted_records(pings[i], include_deleted)})

\* crud.py:1191-1212
get_support_by_id(support_id, include_deleted) ==
    scalar_one_or_none({i \in DOMAIN supports :
        i = support_id /\ include_deleted_records(supports[i], include_deleted)})

\* crud.py:483-512
get_user_study(user_id, study_id, include_deleted) ==
    scalar_one_or_none({i \in DOMAIN user_studies :
        /\ user_studies[i].user_id = user_id
        /\ user_studies[i].study_id = study_id
        /\ include_deleted_records(user_studies[i], include_deleted)})

\* crud.py:453-481 (this definition replaces the one of lines 86-115):
\* select(User).join(UserStudy), filtered on User.deleted_at
get_users_for_study(study_id, include_deleted) ==
    {u \in DOMAIN users :
        /\ \E i \in DOMAIN user_studies :
              user_studies[i].user_id = u /\ user_studies[i].study_id = study_id
        /\ include_deleted_records(users[u], include_deleted)}

\* crud.py:365-393  select(Study).join(UserStudy), filtered on Study.deleted_at
get_studies_for_user(user_id, include_deleted) ==
    {s \in DOMAIN studies :
        /\ \E i \in DOMAIN user_studies :
              user_studies[i].study_id = s /\ user_studies[i].user_id = user_id
        /\ include_deleted_records(studies[s], include_deleted)}

\* crud.py:619-640
get_enrollments_by_study_id(study_id, include_deleted) ==
    {e \in DOMAIN enrollments :
        /\ enrollments[e].study_id = study_id
        /\ include_deleted_records(enrollments[e], include_deleted)}

\* crud.py:813-833
get_ping_templates_by_study_id(study_id, include_deleted) ==
    {t \in DOMAIN templates :
        /\ templates[t].study_id = study_id
        /\ include_deleted_records(templates[t], include_deleted)}

\* crud.py:1000-1023
get_pings_by_ping_template_id(ping_template_id, include_deleted) ==
    {p \in DOMAIN pings :
        /\ pings[p].ping_template_id = ping_template_id
        /\ include_deleted_records(pings[p], include_deleted)}

\* crud.py:1025-1048
get_pings_by_enrollment_id(enrollment_id, include_deleted) ==
    {p \in DOMAIN pings :
        /\ pings[p].enrollment_id = enrollment_id
        /\ include_deleted_records(pings[p], include_deleted)}

\* mutant of get_pings_by_study_id: the pings are not looked up
NoPingsOfStudy(study_id, include_deleted) == {}

\* crud.py:1050-1073  select(Ping).join(Enrollment).where(Enrollment.study_id == study_id)
get_pings_by_study_id(study_id, include_deleted) ==
    {p \in DOMAIN pings :
        /\ pings[p].enrollment_id \in DOMAIN enrollments
        /\ enrollments[pings[p].enrollment_id].study_id = study_id
        /\ include_deleted_records(pings[p], include_deleted)}

------------------------------------------------------------------------------
(* crud.py: the soft deletes, each committed by its caller.  `last` keeps the *)
(* call, what it returned and the tables as they were before it.              *)

Tables ==
    [users |-> users, studies |-> studies, user_studies |-> user_studies,
     enrollments |-> enrollments, templates |-> templates, pings |-> pings,
     supports |-> supports]

Returned(op, args, result) ==
    [called |-> TRUE, op |-> op, args |-> args, result |-> result, before |-> Tables]

\* row.deleted_at = datetime.now(timezone.utc) for the rows `ids` of `table`
Stamp(table, ids) ==
    [i \in DOMAIN table |->
        IF i \in ids THEN [table[i] EXCEPT !.deleted_at = clock] ELSE table[i]]

\* what no crud.py call touches
nocrud == <<clock, import_now, sw, handed, rt, mp, user_studies_id_seq, web>>

\* crud.py:177-203
soft_delete_user(user_id) ==
    /\ LET user == get_user_by_id(user_id, TRUE)
           studies_of_user == get_studies_for_user(user_id, TRUE)
       IN IF user = NULL
          THEN /\ last' = Returned("soft_delete_user", <<user_id>>, FALSE)
               /\ UNCHANGED <<users, user_studies>>
          ELSE /\ users' = Stamp(users, {user})
               /\ user_studies' = Stamp(user_studies,
                      {get_user_study(user_id, s, TRUE) : s \in studies_of_user})
               /\ last' = Returned("soft_delete_user", <<user_id>>, TRUE)
    /\ UNCHANGED <<nocrud, studies, enrollments, templates, pings, supports>>

\* crud.py:328-362
soft_delete_study(study_id) ==
    /\ LET study == get_study_by_id(study_id, TRUE)
           enrollments_of == get_enrollments_by_study_id(study_id, TRUE)
           pings_of == get_pings_by_study_id(study_id, TRUE)
           ping_templates_of == get_ping_templates_by_study_id(study_id, TRUE)
           users_of == get_users_for_study(study_id, TRUE)
       IN IF study = NULL
          THEN /\ last' = Returned("soft_delete_study", <<study_id>>, FALSE)
               /\ UNCHANGED <<studies, enrollments, pings, templates, user_studies>>
          ELSE /\ studies' = Stamp(studies, {study})
               /\ enrollments' = Stamp(enrollments, enrollments_of)
               /\ pings' = Stamp(pings, pings_of)
               /\ templates' = Stamp(templates, ping_templates_of)
               /\ user_studies' = Stamp(user_studies,
                      {get_user_study(u, study_id, TRUE) : u \in users_of})
               /\ last' = Returned("soft_delete_study", <<study_id>>, TRUE)
    /\ UNCHANGED <<nocrud, users, supports>>

\* crud.py:540-556  (the only soft delete that looks up with include_deleted=False)
soft_delete_user_study(user_id, study_id) ==
    /\ LET user_study == get_user_study(user_id, study_id, FALSE)
       IN IF user_study = NULL
          THEN /\ last' = Returned("soft_delete_user_study", <<user_id, study_id>>, FALSE)
               /\ UNCHANGED user_studies
          ELSE /\ user_studies' = Stamp(user_studies, {user_study})
               /\ last' = Returned("soft_delete_user_study", <<user_id, study_id>>, TRUE)
    /\ UNCHANGED <<nocrud, users, studies, enrollments, templates, pings, supports>>

\* crud.py:723-743
soft_delete_enrollment(enrollment_id) ==
    /\ LET enrollment == get_enrollment_by_id(enrollment_id, TRUE)
           pings_of == get_pings_by_enrollment_id(enrollment_id, TRUE)
       IN IF enrollment = NULL
          THEN /\ last' = Returned("soft_delete_enrollment", <<enrollment_id>>, FALSE)
               /\ UNCHANGED <<enrollments, pings>>
          ELSE /\ enrollments' = Stamp(enrollments, {enrollment})
               /\ pings' = Stamp(pings, pings_of)
               /\ last' = Returned("soft_delete_enrollment", <<enrollment_id>>, TRUE)
    /\ UNCHANGED <<nocrud, users, studies, user_studies, templates, supports>>

\* crud.py:862-886
soft_delete_ping_template(template_id) ==
    /\ LET pt == get_ping_template_by_id(template_id, TRUE)
           pings_of == get_pings_by_ping_template_id(template_id, TRUE)
       IN IF pt = NULL
          THEN /\ last' = Returned("soft_delete_ping_template", <<template_id>>, FALSE)
               /\ UNCHANGED <<templates, pings>>
          ELSE /\ templates' = Stamp(templates, {pt})
               /\ pings' = Stamp(pings, pings_of)
               /\ last' = Returned("soft_delete_ping_template", <<template_id>>, TRUE)
    /\ UNCHANGED <<nocrud, users, studies, user_studies, enrollments, supports>>

\* crud.py:1106-1125
soft_delete_ping(ping_id) ==
    /\ LET ping == get_ping_by_id(ping_id, TRUE)
       IN IF ping = NULL
          THEN /\ last' = Returned("soft_delete_ping", <<ping_id>>, FALSE)
               /\ UNCHANGED pings
          ELSE /\ pings' = Stamp(pings, {ping})
               /\ last' = Returned("soft_delete_ping", <<ping_id>>, TRUE)
    /\ UNCHANGED <<nocrud, users, studies, user_studies, enrollments, templates, supports>>

\* crud.py:1128-1154  returns True on both paths (lines 1150-1151 and 1154)
soft_delete_all_pings_for_enrollment(enrollment_id) ==
    /\ LET pings_of == get_pings_by_enrollment_id(enrollment_id, FALSE)
       IN IF pings_of = {}
          THEN /\ last' = Returned("soft_delete_all_pings_for_enrollment",
                                   <<enrollment_id>>, TRUE)
               /\ UNCHANGED pings
          ELSE /\ pings' = Stamp(pings, pings_of)
               /\ last' = Returned("soft_delete_all_pings_for_enrollment",
                                   <<enrollment_id>>, TRUE)
    /\ UNCHANGED <<nocrud, users, studies, user_studies, enrollments, templates, supports>>

\* crud.py:1241-1260
soft_delete_support_query(support_id) ==
    /\ LET support == get_support_by_id(support_id, TRUE)
       IN IF support = NULL
          THEN /\ last' = Returned("soft_delete_support_query", <<support_id>>, FALSE)
               /\ UNCHANGED supports
          ELSE /\ supports' = Stamp(supports, {support})
               /\ last' = Returned("soft_delete_support_query", <<support_id>>, TRUE)
    /\ UNCHANGED <<nocrud, users, studies, user_studies, enrollments, templates, pings>>

------------------------------------------------------------------------------
(* crud.py: add_user_study and the updates, each committed by its caller *)

Roles == {"owner", "viewer"}

\* crud.py:397-426  `existing` is looked up with include_deleted=True and deleted
\* whether or not it is soft-deleted; the new row takes the next id (models.py:71)
add_user_study(user_id, study_id, role) ==
    /\ user_studies_id_seq < MaxUserStudies
    /\ LET existing == get_user_study(user_id, study_id, TRUE)
           kept == DOMAIN user_studies \ {existing}
           id == user_studies_id_seq + 1
       IN /\ user_studies' = [i \in kept \cup {id} |->
                 IF i = id THEN UserStudy(user_id, study_id, role) ELSE user_studies[i]]
          /\ user_studies_id_seq' = id
          /\ last' = Returned("add_user_study", <<user_id, study_id, role>>, id)
    /\ UNCHANGED <<clock, import_now, sw, handed, rt, mp, web,
                   users, studies, enrollments, templates, pings, supports>>

\* mutant of SetAttrs: every keyword is assigned
SetAnyAttrs(row, whitelist, kwargs) ==
    [f \in DOMAIN row |-> IF f \in DOMAIN kwargs THEN kwargs[f] ELSE row[f]]

\* for field in whitelist: if field in kwargs: setattr(row, field, kwargs[field])
\* (an attribute that is no column of the row is not persisted)
SetAttrs(row, whitelist, kwargs) ==
    [f \in DOMAIN row |->
        IF f \in whitelist /\ f \in DOMAIN kwargs THEN kwargs[f] ELSE row[f]]

\* crud.py:167, 171-172  and models.py:115-117 (set_password)
UserWhitelist == {"email", "first_name", "last_name", "institution", "prolific_token"}
\* crud.py:322
StudyWhitelist == {"public_name", "internal_name", "contact_message"}
\* crud.py:717
EnrollmentWhitelist ==
    {"telegram_id", "tz", "study_pid", "enrolled", "signup_ts", "pr_completed"}
\* crud.py:856
PingTemplateWhitelist ==
    {"name", "message", "url", "url_text", "reminder_latency", "expire_latency", "schedule"}
\* crud.py:1096-1100
PingWhitelist ==
    {"ping_template_id", "enrollment_id", "scheduled_ts", "expire_ts", "reminder_ts",
     "day_num", "ping_sent_ts", "reminder_sent_ts", "first_clicked_ts", "last_clicked_ts"}
\* crud.py:1235
SupportWhitelist == {"is_urgent", "resolved", "notes", "messages"}

\* crud.py:147-174
update_user(user_id, kwargs) ==
    /\ LET user == get_user_by_id(user_id, TRUE)
       IN IF user = NULL
          THEN /\ last' = Returned("update_user", <<user_id, kwargs>>, NULL)
               /\ UNCHANGED users
          ELSE /\ users' = [users EXCEPT ![user] =
                    LET row == SetAttrs(users[user], UserWhitelist, kwargs)
                    IN IF "password" \in DOMAIN kwargs
                       THEN [row EXCEPT !.password = generate_password_hash(kwargs.password)]
                       ELSE row]
               /\ last' = Returned("update_user", <<user_id, kwargs>>, user)
    /\ UNCHANGED <<nocrud, studies, user_studies, enrollments, templates, pings, supports>>

\* crud.py:302-325
update_study(study_id, kwargs) ==
    /\ LET study == get_study_by_id(study_id, TRUE)
       IN IF study = NULL
          THEN /\ last' = Returned("update_study", <<study_id, kwargs>>, NULL)
               /\ UNCHANGED studies
          ELSE /\ studies' = [studies EXCEPT ![study] =
                                 SetAttrs(studies[study], StudyWhitelist, kwargs)]
               /\ last' = Returned("update_study", <<study_id, kwargs>>, study)
    /\ UNCHANGED <<nocrud, users, user_studies, enrollments, templates, pings, supports>>

\* crud.py:515-538
update_user_study_role(user_id, study_id, new_role) ==
    /\ LET user_study == get_user_study(user_id, study_id, TRUE)
           args == <<user_id, study_id, [role |-> new_role]>>
       IN IF user_study = NULL
          THEN /\ last' = Returned("update_user_study_role", args, NULL)
               /\ UNCHANGED user_studies
          ELSE /\ user_studies' = [user_studies EXCEPT ![user_study].role = new_role]
               /\ last' = Returned("update_user_study_role", args, user_study)
    /\ UNCHANGED <<nocrud, users, studies, enrollments, templates, pings, supports>>

\* crud.py:697-720
update_enrollment(enrollment_id, kwargs) ==
    /\ LET enrollment == get_enrollment_by_id(enrollment_id, TRUE)
       IN IF enrollment = NULL
          THEN /\ last' = Returned("update_enrollment", <<enrollment_id, kwargs>>, NULL)
               /\ UNCHANGED enrollments
          ELSE /\ enrollments' = [enrollments EXCEPT ![enrollment] =
                      SetAttrs(enrollments[enrollment], EnrollmentWhitelist, kwargs)]
               /\ last' = Returned("update_enrollment", <<enrollment_id, kwargs>>, enrollment)
    /\ UNCHANGED <<nocrud, users, studies, user_studies, templates, pings, supports>>

\* crud.py:836-859
update_ping_template(template_id, kwargs) ==
    /\ LET pt == get_ping_template_by_id(template_id, TRUE)
       IN IF pt = NULL
          THEN /\ last' = Returned("update_ping_template", <<template_id, kwargs>>, NULL)
               /\ UNCHANGED templates
          ELSE /\ templates' = [templates EXCEPT ![pt] =
                      SetAttrs(templates[pt], PingTemplateWhitelist, kwargs)]
               /\ last' = Returned("update_ping_template", <<template_id, kwargs>>, pt)
    /\ UNCHANGED <<nocrud, users, studies, user_studies, enrollments, pings, supports>>

\* crud.py:1076-1103
update_ping(ping_id, kwargs) ==
    /\ LET ping == get_ping_by_id(ping_id, TRUE)
       IN IF ping = NULL
          THEN /\ last' = Returned("update_ping", <<ping_id, kwargs>>, NULL)
               /\ UNCHANGED pings
          ELSE /\ pings' = [pings EXCEPT ![ping] =
                               SetAttrs(pings[ping], PingWhitelist, kwargs)]
               /\ last' = Returned("update_ping", <<ping_id, kwargs>>, ping)
    /\ UNCHANGED <<nocrud, users, studies, user_studies, enrollments, templates, supports>>

\* crud.py:1215-1238
update_support_query(support_id, kwargs) ==
    /\ LET support == get_support_by_id(support_id, TRUE)
       IN IF support = NULL
          THEN /\ last' = Returned("update_support_query", <<support_id, kwargs>>, NULL)
               /\ UNCHANGED supports
          ELSE /\ supports' = [supports EXCEPT ![support] =
                      SetAttrs(supports[support], SupportWhitelist, kwargs)]
               /\ last' = Returned("update_support_query", <<support_id, kwargs>>, support)
    /\ UNCHANGED <<nocrud, users, studies, user_studies, enrollments, templates, pings>>

------------------------------------------------------------------------------
(* crud.py: one call of a due-ping query, by a caller that holds no row lock *)

QuerySend ==
    /\ last' = Returned("get_pings_to_send", <<clock>>, get_pings_to_send(clock, 1))
    /\ UNCHANGED <<nocrud, users, studies, user_studies, enrollments, templates, pings,
                   supports>>

QueryRemind ==
    /\ last' = Returned("get_pings_for_reminder", <<clock>>,
                        get_pings_for_reminder(clock, 1))
    /\ UNCHANGED <<nocrud, users, studies, user_studies, enrollments, templates, pings,
                   supports>>

------------------------------------------------------------------------------
(* bot.py: the endpoints of the Telegram bot.  `result` is the HTTP status. *)

\* Enrollment.query.filter_by(...).first(): LIMIT 1 without ORDER BY returns any
\* one of the matching rows
first(matches) == IF matches = {} THEN {NULL} ELSE matches

\* mutant of link_telegram_id: telegram_link_code_used is not looked at
link_telegram_id_again(telegram_id, telegram_link_code) ==
    /\ LET args == <<telegram_id, telegram_link_code>>
           answer(status) == last' = Returned("link_telegram_id", args, status)
       IN IF telegram_id = NULL \/ telegram_link_code = NULL
          THEN answer(400) /\ UNCHANGED enrollments
          ELSE \E enrollment \in first({e \in DOMAIN enrollments :
                   enrollments[e].telegram_link_code = telegram_link_code}) :
               IF enrollment = NULL
               THEN answer(400) /\ UNCHANGED enrollments
               ELSE IF enrollments[enrollment].telegram_link_code_expire_ts = NULL
               THEN answer(500) /\ UNCHANGED enrollments   \* None < datetime: TypeError
               ELSE IF enrollments[enrollment].telegram_link_code_expire_ts < clock
               THEN answer(400) /\ UNCHANGED enrollments
               ELSE /\ enrollments' = [enrollments EXCEPT ![enrollment] =
                           [@ EXCEPT !.telegram_id = telegram_id,
                                     !.telegram_link_code_used = TRUE]]
                    /\ answer(200)
    /\ UNCHANGED <<nocrud, users, studies, user_studies, templates, pings, supports>>

\* bot.py:32-91
link_telegram_id(telegram_id, telegram_link_code) ==
    /\ LET args == <<telegram_id, telegram_link_code>>
           answer(status) == last' = Returned("link_telegram_id", args, status)
       IN IF telegram_id = NULL \/ telegram_link_code = NULL
          THEN answer(400) /\ UNCHANGED enrollments
          ELSE \E enrollment \in first({e \in DOMAIN enrollments :
                   enrollments[e].telegram_link_code = telegram_link_code}) :
               IF enrollment = NULL
               THEN answer(400) /\ UNCHANGED enrollments
               ELSE IF enrollments[enrollment].telegram_link_code_used
               THEN answer(400) /\ UNCHANGED enrollments
               ELSE IF enrollments[enrollment].telegram_link_code_expire_ts = NULL
               THEN answer(500) /\ UNCHANGED enrollments   \* None < datetime: TypeError
               ELSE IF enrollments[enrollment].telegram_link_code_expire_ts < clock
               THEN answer(400) /\ UNCHANGED enrollments
               ELSE /\ enrollments' = [enrollments EXCEPT ![enrollment] =
                           [@ EXCEPT !.telegram_id = telegram_id,
                                     !.telegram_link_code_used = TRUE]]
                    /\ answer(200)
    /\ UNCHANGED <<nocrud, users, studies, user_studies, templates, pings, supports>>

\* bot.py:93-132
unenroll(telegram_id) ==
    /\ LET answer(status) == last' = Returned("unenroll", <<telegram_id>>, status)
       IN IF telegram_id = NULL
          THEN answer(400) /\ UNCHANGED enrollments
          ELSE \E enrollment \in first({e \in DOMAIN enrollments :
                   enrollments[e].telegram_id = telegram_id}) :
               IF enrollment = NULL
               THEN answer(404) /\ UNCHANGED enrollments
               ELSE /\ enrollments' = [enrollments EXCEPT ![enrollment].enrolled = FALSE]
                    /\ answer(200)
    /\ UNCHANGED <<nocrud, users, studies, user_studies, templates, pings, supports>>

------------------------------------------------------------------------------
(* Time *)

\* the instants at which the model looks at the system: around the start and
\* around the end of the late-delivery tolerance of a ping scheduled at 1
TimePoints == (0..MaxStep) \cup {acceptable_delay + 1 + k : k \in 0..MaxStep}

\* time passes
Tick(t) ==
    /\ t > clock
    /\ clock' = t
    /\ UNCHANGED <<import_now, studies, enrollments, templates, pings, sw, handed, rt, mp, crudvars>>

------------------------------------------------------------------------------
(* crud.py create_ping, committed by its caller *)

ExpireChoices(sched) == {NULL, sched + 1}

PingKwargs ==
    {[enrollment_id |-> e, study_id |-> enrollments[e].study_id, ping_template_id |-> t,
      scheduled_ts |-> sched, expire_ts |-> ex, reminder_ts |-> sched + 1,
      day_num |-> 0, message |-> 1] :
        e \in DOMAIN enrollments, t \in DOMAIN templates, sched \in {1},
        ex \in {NULL, 2}}

create_ping(kw) ==
    /\ Len(pings) < MaxPings
    /\ templates[kw.ping_template_id].study_id = kw.study_id
    /\ kw.scheduled_ts >= clock
    /\ kw.expire_ts \in ExpireChoices(kw.scheduled_ts)
    /\ PingInsertAccepted(Ping(kw))
    /\ pings' = Append(pings, Ping(kw))
    /\ UNCHANGED <<clock, import_now, studies, enrollments, templates, sw, handed, rt, mp, crudvars>>

------------------------------------------------------------------------------
(* The sweepers: one transaction each, from the query to the commit *)

\* the value of the parameter now: the caller's, or the default bound at import
NowArg(use_default) == IF use_default THEN import_now ELSE clock

SweepSend(s, use_default) ==
    /\ sw[s].pc = "idle"
    /\ LET now == NowArg(use_default)
           got == get_pings_to_send(now, s)
       IN /\ sw' = [sw EXCEPT ![s] =
                       [pc |-> "send", now |-> now,
                        used_default |-> use_default, batch |-> got,
                        missed_due |-> get_pings_to_send(clock, s) \ got,
                        missed_unlocked |-> {p \in 1..Len(pings) :
                            SendWhere(pings[p], now) /\ ~PingRowLocked(p, s)} \ got]]
          /\ handed' = [p \in PingIds |-> IF p \in got THEN handed[p] + 1 ELSE handed[p]]
    /\ UNCHANGED <<clock, import_now, studies, enrollments, templates, pings, rt, mp, crudvars>>

CommitSend(s) ==
    /\ sw[s].pc = "send"
    /\ pings' = [p \in 1..Len(pings) |->
                    IF p \in sw[s].batch THEN [pings[p] EXCEPT !.sent_ts = clock]
                    ELSE pings[p]]
    /\ sw' = [sw EXCEPT ![s] = IdleSweeper]
    /\ UNCHANGED <<clock, import_now, studies, enrollments, templates, handed, rt, mp, crudvars>>

SweepRemind(s, use_default) ==
    /\ sw[s].pc = "idle"
    /\ LET now == NowArg(use_default)
           got == get_pings_for_reminder(now, s)
       IN sw' = [sw EXCEPT ![s] =
                    [pc |-> "remind", now |-> now,
                     used_default |-> use_default, batch |-> got,
                     missed_due |-> get_pings_for_reminder(clock, s) \ got,
                     missed_unlocked |-> {p \in 1..Len(pings) :
                         ReminderWhere(pings[p], now) /\ ~PingRowLocked(p, s)} \ got]]
    /\ UNCHANGED <<clock, import_now, studies, enrollments, templates, pings, handed, rt, mp, crudvars>>

CommitRemind(s) ==
    /\ sw[s].pc = "remind"
    /\ pings' = [p \in 1..Len(pings) |->
                    IF p \in sw[s].batch THEN [pings[p] EXCEPT !.reminder_sent_ts = clock]
                    ELSE pings[p]]
    /\ sw' = [sw EXCEPT ![s] = IdleSweeper]
    /\ UNCHANGED <<clock, import_now, studies, enrollments, templates, handed, rt, mp, crudvars>>

Next ==
    \/ \E t \in TimePoints : Tick(t)
    \/ \E kw \in PingKwargs : create_ping(kw)
    \/ \E s \in Sweepers, use_default \in BOOLEAN : SweepSend(s, use_default)
    \/ \E s \in Sweepers : CommitSend(s)

\* the participant follows the link of a ping that was sent and the first
\* click is recorded; the UPDATE waits while a sweeper holds the row
Click(ping_id) ==
    /\ ping_id \in DOMAIN pings
    /\ pings[ping_id].sent_ts # NULL
    /\ pings[ping_id].first_clicked_ts = NULL
    /\ \A s \in Sweepers : ping_id \notin LockedPings(s)
    /\ pings' = [pings EXCEPT ![ping_id].first_clicked_ts = clock]
    /\ UNCHANGED <<clock, import_now, studies, enrollments, templates, sw, handed, rt, mp,
                   crudvars>>

\* one job sends the due pings while another one sends the due reminders
NextRemind ==
    \/ \E t \in TimePoints : Tick(t)
    \/ \E kw \in PingKwargs : create_ping(kw)
    \/ \E use_default \in BOOLEAN : SweepSend(1, use_default)
    \/ CommitSend(1)
    \/ \E use_default \in BOOLEAN : SweepRemind(2, use_default)
    \/ CommitRemind(2)

Spec == Init /\ [][Next]_vars

SpecRemind == Init /\ [][NextRemind]_vars

------------------------------------------------------------------------------
(* participant_facing.py: random_time *)

\* a time string "HH:MM" is its four digits, "09:01" = <<0, 9, 0, 1>>
T0900 == <<0, 9, 0, 0>>
T0901 == <<0, 9, 0, 1>>
T2400 == <<2, 4, 0, 0>>

\* datetime.strptime(s, '%H:%M').time(): the seconds since midnight, or a ValueError
strptime(s) ==
    LET hh == 10 * s[1] + s[2]
        mm == 10 * s[3] + s[4]
    IN IF hh <= 23 /\ mm <= 59
       THEN [ok |-> TRUE, tod |-> hh * 3600 + mm * SecondsPerMinute]
       ELSE [ok |-> FALSE, tod |-> NULL]

\* the zones pytz knows: lmt is the offset of the zone object pytz.timezone()
\* returns before it is localized (the zone's first, local-mean-time entry),
\* utcoffset the offset in force in the zone on the modelled days
TzDb ==
    ("UTC" :> [lmt |-> 0, utcoffset |-> 0])
    @@ ("America/Los_Angeles" :> [lmt |-> -28380, utcoffset |-> -28800])
    @@ ("Asia/Kolkata" :> [lmt |-> 21180, utcoffset |-> 19800])

TzNames == DOMAIN TzDb \cup {"Mars/Olympus"}

\* the instant of the wall time (date, tod) in the zone
LocalInstant(date, tod, zone) == date * SecondsPerDay + tod - zone.utcoffset

\* datetime.combine(date, time, tzinfo=tz) with tz a pytz zone: the zone object is
\* attached as it is, so the instant is the wall time minus the zone's lmt offset
combine(date, tod, zone) == date * SecondsPerDay + tod - zone.lmt

RtRaise == [kind |-> "raise", ts |-> NULL]
RtNone == [kind |-> "none", ts |-> NULL]

\* the outcomes of random_time: a timestamp, None (unknown timezone), or an
\* exception (a time that does not parse; randint over an empty range; randint
\* given the float total_seconds(), which Python 3.12 and later reject)
random_time(start_date, start_day_num, start_time, end_day_num, end_time, tz) ==
    LET interval_start_date == start_date + start_day_num
        interval_end_date == start_date + end_day_num
        st == strptime(start_time)
        et == strptime(end_time)
    IN IF ~st.ok \/ ~et.ok THEN {RtRaise}
       ELSE IF tz \notin DOMAIN TzDb THEN {RtNone}
       ELSE LET interval_start_ts == combine(interval_start_date, st.tod, TzDb[tz])
                interval_end_ts == combine(interval_end_date, et.tod, TzDb[tz])
                ping_interval_length == interval_end_ts - interval_start_ts
            IN {RtRaise} \cup
               {[kind |-> "ts", ts |-> interval_start_ts + r] : r \in 0..ping_interval_length}

Window(sdn, st, edn, et) ==
    [start_day_num |-> sdn, start_time |-> st, end_day_num |-> edn, end_time |-> et]

WMinute == Window(0, T0900, 0, T0901)
WInstant == Window(1, T0900, 1, T0900)
WBackwards == Window(0, T0901, 0, T0900)
WBadTime == Window(0, T2400, 0, T0900)
\* a schedule entry without the key 'end_time': ping['end_time'] is a KeyError
WNoEndTime == [start_day_num |-> 0, start_time |-> T0900, end_day_num |-> 0]

\* the keys make_pings reads from a schedule entry (participant_facing.py:94-97)
ScheduleKeys == {"start_day_num", "start_time", "end_day_num", "end_time"}

Windows == {WMinute, WInstant, WBackwards, WBadTime}

StartDates == {1, 2}

InitRandomTime ==
    /\ InitSweep
    /\ studies = [i \in StudyIds |-> Study(i)]
    /\ enrollments = (1 :> Enrollment(1, "UTC", 1)) @@ (2 :> Enrollment(2, "UTC", 1))
    /\ templates = (1 :> PingTemplate(1, <<>>, 1, SecondsPerMinute))
                        @@ (2 :> PingTemplate(2, <<>>, 1, SecondsPerMinute))

RandomTimeCall(start_date, w, tz) ==
    /\ \E o \in random_time(start_date, w.start_day_num, w.start_time,
                            w.end_day_num, w.end_time, tz) :
           rt' = [called |-> TRUE, start_date |-> start_date, w |-> w, tz |-> tz,
                  result |-> o]
    /\ UNCHANGED <<clock, import_now, studies, enrollments, templates, pings, sw, handed, mp, crudvars>>

NextRandomTime ==
    \E start_date \in StartDates, w \in Windows, tz \in TzNames :
        RandomTimeCall(start_date, w, tz)

SpecRandomTime == InitRandomTime /\ [][NextRandomTime]_vars

------------------------------------------------------------------------------
(* participant_facing.py: make_pings *)

TemplateOrder == <<1, 2>>

\* study.ping_templates as a list
ping_templates(study_id) ==
    SelectSeq(TemplateOrder, LAMBDA t : templates[t].study_id = study_id)

\* the pairs (pt, ping) the two nested loops visit, in order
RECURSIVE LoopItems(_)
LoopItems(pts) ==
    IF pts = <<>> THEN <<>>
    ELSE [i \in 1..Len(templates[Head(pts)].schedule) |->
             [pt |-> Head(pts), w |-> templates[Head(pts)].schedule[i]]]
         \o LoopItems(Tail(pts))

\* the mutant of ping_dict that takes each timestamp from the other latency
ping_dict_swapped(enrollment_id, study_id, pt, w, ping_time) ==
    [enrollment_id |-> enrollment_id, study_id |-> study_id, ping_template_id |-> pt,
     scheduled_ts |-> ping_time,
     expire_ts |-> ping_time + templates[pt].reminder_latency,
     reminder_ts |-> ping_time + templates[pt].expire_latency,
     day_num |-> w.start_day_num, url |-> templates[pt].url,
     ping_sent |-> FALSE, reminder_sent |-> FALSE]

\* the dict built for one window (lines 100-111)
ping_dict(enrollment_id, study_id, pt, w, ping_time) ==
    [enrollment_id |-> enrollment_id, study_id |-> study_id, ping_template_id |-> pt,
     scheduled_ts |-> ping_time,
     expire_ts |-> ping_time + templates[pt].expire_latency,
     reminder_ts |-> ping_time + templates[pt].reminder_latency,
     day_num |-> w.start_day_num, url |-> templates[pt].url,
     ping_sent |-> FALSE, reminder_sent |-> FALSE]

\* the runs of the loops over items: the dicts appended to the list pings, and
\* whether an exception ended the run (a schedule key is missing, random_time
\* raised, or it returned None or a latency is None and the addition raised a
\* TypeError)
RECURSIVE LoopRuns(_, _, _)
LoopRuns(items, enrollment_id, study_id) ==
    IF items = <<>> THEN {[made |-> <<>>, raised |-> FALSE]}
    ELSE LET pt == Head(items).pt
             w == Head(items).w
             e == enrollments[enrollment_id]
             outs == random_time(e.start_date, w.start_day_num, w.start_time,
                                 w.end_day_num, w.end_time, e.tz)
             rest == LoopRuns(Tail(items), enrollment_id, study_id)
         IN IF ~(ScheduleKeys \subseteq DOMAIN w)
            THEN {[made |-> <<>>, raised |-> TRUE]}
            ELSE UNION {
              IF \/ o.kind # "ts"
                 \/ templates[pt].expire_latency = NULL
                 \/ templates[pt].reminder_latency = NULL
              THEN {[made |-> <<>>, raised |-> TRUE]}
              ELSE {[made |-> <<ping_dict(enrollment_id, study_id, pt, w, o.ts)>> \o r.made,
                     raised |-> r.raised] : r \in rest}
              : o \in outs}

\* db.session.commit(): every row is inserted, or an IntegrityError is raised
CommitAccepted(rows) == \A i \in 1..Len(rows) : PingInsertAccepted(rows[i])

MpResult(enrollment_id, study_id, made, returned) ==
    [called |-> TRUE, enrollment_id |-> enrollment_id, study_id |-> study_id,
     made |-> made, returned |-> returned, before |-> Len(pings)]

\* mutant of make_pings: the rows added before the failure stay in the table
make_pings_partial(enrollment_id, study_id) ==
    /\ IF \/ enrollment_id \notin DOMAIN enrollments
          \/ study_id \notin DOMAIN studies
          \/ ping_templates(study_id) = <<>>
       THEN /\ mp' = MpResult(enrollment_id, study_id, <<>>, "None")
            /\ pings' = pings
       ELSE \E run \in LoopRuns(LoopItems(ping_templates(study_id)), enrollment_id, study_id) :
              LET rows == [i \in 1..Len(run.made) |-> Ping(run.made[i])]
              IN IF run.raised \/ ~CommitAccepted(rows)
                 THEN /\ mp' = MpResult(enrollment_id, study_id, run.made, "None")
                      /\ pings' = pings \o rows
                 ELSE /\ mp' = MpResult(enrollment_id, study_id, run.made, "pings")
                      /\ pings' = pings \o rows
    /\ UNCHANGED <<clock, import_now, studies, enrollments, templates, sw, handed, rt, crudvars>>

\* participant_facing.py:62-122: what a call does to the table pings
MakePingsEffect(enrollment_id, study_id) ==
    IF \/ enrollment_id \notin DOMAIN enrollments
          \/ study_id \notin DOMAIN studies
          \/ ping_templates(study_id) = <<>>
       THEN /\ mp' = MpResult(enrollment_id, study_id, <<>>, "None")
            /\ pings' = pings
       ELSE \E run \in LoopRuns(LoopItems(ping_templates(study_id)), enrollment_id, study_id) :
              LET rows == [i \in 1..Len(run.made) |-> Ping(run.made[i])]
              IN IF run.raised \/ ~CommitAccepted(rows)
                 THEN \* except: db.session.rollback(); return
                      /\ mp' = MpResult(enrollment_id, study_id, run.made, "None")
                      /\ pings' = pings
                 ELSE /\ mp' = MpResult(enrollment_id, study_id, run.made, "pings")
                      /\ pings' = pings \o rows

\* participant_facing.py:62-122
make_pings(enrollment_id, study_id) ==
    /\ MakePingsEffect(enrollment_id, study_id)
    /\ UNCHANGED <<clock, import_now, studies, enrollments, templates, sw, handed, rt, crudvars>>

Schedules ==
    {<<>>, <<WInstant>>, <<WMinute>>, <<WInstant, WMinute>>, <<WInstant, WBackwards>>,
     <<WBadTime>>, <<WInstant, WNoEndTime>>}

InitMakePings ==
    /\ InitSweep
    /\ studies = [i \in StudyIds |-> Study(i)]
    /\ \E tz \in TzNames :
           enrollments = (1 :> Enrollment(1, tz, 1)) @@ (2 :> Enrollment(2, "UTC", 2))
    /\ \E sch1 \in Schedules, sch2 \in {<<>>, <<WInstant>>}, sid2 \in StudyIds,
          el \in {NULL, 3600} :
           templates = (1 :> PingTemplate(1, sch1, 1800, el))
                          @@ (2 :> PingTemplate(sid2, sch2, 600, 7200))

NextMakePings ==
    \E enrollment_id \in EnrollmentIds \cup {3}, study_id \in StudyIds \cup {3} :
        make_pings(enrollment_id, study_id)

SpecMakePings == InitMakePings /\ [][NextMakePings]_vars

------------------------------------------------------------------------------
(* The CRUD layer on a small database: two studies, each with an enrollment, *)
(* a ping template and a ping; two users; one support query.                 *)

\* the rows of the database: ping 1 is due and unsent, ping 2 was sent and its
\* reminder is due
InitRows ==
    [users       |-> [i \in UserIds |-> User(i)],
     studies     |-> [i \in StudyIds |-> Study(i)],
     enrollments |-> (1 :> Enrollment(1, "UTC", 1)) @@ (2 :> Enrollment(2, "UTC", 1)),
     templates   |-> (1 :> PingTemplate(1, <<>>, 1, SecondsPerMinute))
                         @@ (2 :> PingTemplate(2, <<>>, 1, SecondsPerMinute)),
     pings       |-> <<Ping([enrollment_id |-> 1, study_id |-> 1, ping_template_id |-> 1,
                             scheduled_ts |-> 0, reminder_ts |-> 0, day_num |-> 0,
                             message |-> 1]),
                       Ping([enrollment_id |-> 2, study_id |-> 2, ping_template_id |-> 2,
                             scheduled_ts |-> 0, reminder_ts |-> 0, day_num |-> 0,
                             message |-> 1, sent_ts |-> 0])>>,
     user_studies |-> (1 :> UserStudy(1, 1, "owner")) @@ (2 :> UserStudy(2, 2, "viewer")),
     supports    |-> (1 :> Support(1, FALSE))]

InitQuiet ==
    /\ clock = 0
    /\ import_now = 0
    /\ sw = [s \in Sweepers |-> IdleSweeper]
    /\ handed = [p \in PingIds |-> 0]
    /\ rt = NoCall
    /\ mp = NoCall
    /\ last = NoCall
    /\ web = [r \in Requests |-> IdleRequest]

\* the database with the rows `rows`
InitTables(rows) ==
    /\ users = rows.users
    /\ studies = rows.studies
    /\ enrollments = rows.enrollments
    /\ templates = rows.templates
    /\ pings = rows.pings
    /\ user_studies = rows.user_studies
    /\ user_studies_id_seq = Cardinality(DOMAIN rows.user_studies)
    /\ supports = rows.supports

InitDelete == InitQuiet /\ InitTables(InitRows)

NextDelete ==
    \/ \E user_id \in UserIds \cup {3} : soft_delete_user(user_id)
    \/ \E study_id \in StudyIds \cup {3} : soft_delete_study(study_id)
    \/ \E user_id \in UserIds \cup {3}, study_id \in StudyIds :
          soft_delete_user_study(user_id, study_id)
    \/ \E enrollment_id \in EnrollmentIds \cup {3} : soft_delete_enrollment(enrollment_id)
    \/ \E template_id \in TemplateIds \cup {3} : soft_delete_ping_template(template_id)
    \/ \E ping_id \in PingIds \cup {MaxPings + 1} : soft_delete_ping(ping_id)
    \/ \E enrollment_id \in EnrollmentIds \cup {3} :
          soft_delete_all_pings_for_enrollment(enrollment_id)
    \/ \E support_id \in {1, 2} : soft_delete_support_query(support_id)
    \/ \E enrollment_id \in EnrollmentIds :
          update_enrollment(enrollment_id, [enrolled |-> FALSE])
    \/ QuerySend
    \/ QueryRemind

SpecDelete == InitDelete /\ [][NextDelete]_vars

------------------------------------------------------------------------------
(* The two sweeping jobs on the same database, each passing the current time, *)
(* while participants click                                                   *)

NextClick ==
    \/ \E t \in TimePoints : Tick(t)
    \/ SweepSend(1, FALSE)
    \/ CommitSend(1)
    \/ SweepRemind(2, FALSE)
    \/ CommitRemind(2)
    \/ \E ping_id \in PingIds : Click(ping_id)

SpecClick == InitDelete /\ [][NextClick]_vars

------------------------------------------------------------------------------
(* The user-study links of the same database *)

NextUserStudy ==
    \/ \E user_id \in UserIds, study_id \in StudyIds, role \in Roles :
          add_user_study(user_id, study_id, role)
    \/ \E user_id \in UserIds \cup {3}, study_id \in StudyIds :
          soft_delete_user_study(user_id, study_id)

SpecUserStudy == InitDelete /\ [][NextUserStudy]_vars

------------------------------------------------------------------------------
(* The updates, on the same database, where the rows with id 1 may already   *)
(* be soft-deleted                                                           *)

UserKwargs == {[first_name |-> 2, deleted_at |-> 0, id |-> 3], [password |-> 2]}
StudyKwargs == {[public_name |-> 2, code |-> 3, deleted_at |-> 0]}
EnrollmentKwargs ==
    {[enrolled |-> FALSE, telegram_link_code_used |-> TRUE],
     [signup_ts |-> 1, study_id |-> 2]}
PingTemplateKwargs == {[url |-> 2, study_id |-> 2]}
PingUpdateKwargs ==
    {[first_clicked_ts |-> 0, sent_ts |-> 0], [ping_sent_ts |-> 0, deleted_at |-> 0]}
SupportKwargs == {[resolved |-> TRUE, user_id |-> 2]}

InitUpdate ==
    /\ InitQuiet
    /\ \E d \in {NULL, 0} :
          InitTables([InitRows EXCEPT
              !.users[1].deleted_at = d, !.studies[1].deleted_at = d,
              !.enrollments[1].deleted_at = d, !.templates[1].deleted_at = d,
              !.pings[1].deleted_at = d, !.user_studies[1].deleted_at = d,
              !.supports[1].deleted_at = d])

NextUpdate ==
    \/ \E user_id \in {1, 3}, kwargs \in UserKwargs : update_user(user_id, kwargs)
    \/ \E study_id \in {1, 3}, kwargs \in StudyKwargs : update_study(study_id, kwargs)
    \/ \E user_id \in {1}, study_id \in StudyIds, new_role \in Roles :
          update_user_study_role(user_id, study_id, new_role)
    \/ \E enrollment_id \in {1, 3}, kwargs \in EnrollmentKwargs :
          update_enrollment(enrollment_id, kwargs)
    \/ \E template_id \in {1, 3}, kwargs \in PingTemplateKwargs :
          update_ping_template(template_id, kwargs)
    \/ \E ping_id \in {1, MaxPings + 1}, kwargs \in PingUpdateKwargs :
          update_ping(ping_id, kwargs)
    \/ \E support_id \in {1, 2}, kwargs \in SupportKwargs :
          update_support_query(support_id, kwargs)

SpecUpdate == InitUpdate /\ [][NextUpdate]_vars

------------------------------------------------------------------------------
(* The bot endpoints, on the same database after both participants signed up: *)
(* each enrollment has its own unused link code (participant_facing.py:       *)
(* 146-161), valid until LinkCodeExpireTs                                     *)

TelegramIds == {7, 8}
LinkCodes == {11, 12}

InitBot ==
    /\ InitQuiet
    /\ InitTables([InitRows EXCEPT
           !.enrollments[1].telegram_link_code = 11,
           !.enrollments[1].telegram_link_code_expire_ts = 1,
           !.enrollments[2].telegram_link_code = 12,
           !.enrollments[2].telegram_link_code_expire_ts = 1])

NextBot ==
    \/ \E t \in TimePoints : Tick(t)
    \/ \E telegram_id \in TelegramIds \cup {NULL},
          telegram_link_code \in LinkCodes \cup {13, NULL} :
          link_telegram_id(telegram_id, telegram_link_code)
    \/ \E telegram_id \in TelegramIds \cup {9, NULL} : unenroll(telegram_id)
    \/ QuerySend
    \/ QueryRemind

SpecBot == InitBot /\ [][NextBot]_vars

------------------------------------------------------------------------------
(* bot.py: link_telegram_id served by several workers at once.  Each request *)
(* has its own session and transaction (PostgreSQL, READ COMMITTED): the     *)
(* SELECT of line 68 takes no lock, so other requests run between it and the *)
(* commit of line 83.                                                        *)

\* what no request handler touches
noweb == <<clock, import_now, sw, handed, rt, users, user_studies, user_studies_id_seq,
           supports, last, studies, templates>>

LinkRequest(pc, telegram_id, telegram_link_code, enrollment, status) ==
    [pc |-> pc, op |-> "link_telegram_id", telegram_id |-> telegram_id,
     telegram_link_code |-> telegram_link_code, enrollment |-> enrollment,
     status |-> status]

\* bot.py:43-79: the parameters, the SELECT and the checks on the row it returned
link_telegram_id_select(r, telegram_id, telegram_link_code) ==
    /\ web[r].pc = "idle"
    /\ LET answer(status) ==
               web' = [web EXCEPT ![r] =
                   LinkRequest("done", telegram_id, telegram_link_code, NULL, status)]
       IN IF telegram_id = NULL \/ telegram_link_code = NULL
          THEN answer(400)
          ELSE \E enrollment \in first({e \in DOMAIN enrollments :
                   enrollments[e].telegram_link_code = telegram_link_code}) :
               IF enrollment = NULL
               THEN answer(400)
               ELSE IF enrollments[enrollment].telegram_link_code_used
               THEN answer(400)
               ELSE IF enrollments[enrollment].telegram_link_code_expire_ts = NULL
               THEN answer(500)   \* None < datetime: TypeError
               ELSE IF enrollments[enrollment].telegram_link_code_expire_ts < clock
               THEN answer(400)
               ELSE web' = [web EXCEPT ![r] =
                        LinkRequest("checked", telegram_id, telegram_link_code,
                                    enrollment, NULL)]
    /\ UNCHANGED <<noweb, mp, enrollments, pings>>

\* bot.py:81-91: the two assignments, the commit (the UPDATE of the row by its
\* id, which waits for a concurrent UPDATE to commit and then applies) and the
\* answer 200
link_telegram_id_commit(r) ==
    /\ web[r].pc = "checked"
    /\ web[r].op = "link_telegram_id"
    /\ enrollments' = [enrollments EXCEPT ![web[r].enrollment] =
           [@ EXCEPT !.telegram_id = web[r].telegram_id,
                     !.telegram_link_code_used = TRUE]]
    /\ web' = [web EXCEPT ![r] = [@ EXCEPT !.pc = "done", !.status = 200]]
    /\ UNCHANGED <<noweb, mp, pings>>

\* the answer is sent; the worker is free for the next request
respond(r) ==
    /\ web[r].pc = "done"
    /\ web' = [web EXCEPT ![r] = IdleRequest]
    /\ UNCHANGED <<noweb, mp, enrollments, pings>>

NextLink ==
    \/ \E t \in TimePoints : Tick(t)
    \/ \E r \in Requests, telegram_id \in TelegramIds \cup {NULL},
          telegram_link_code \in LinkCodes \cup {13, NULL} :
          link_telegram_id_select(r, telegram_id, telegram_link_code)
    \/ \E r \in Requests : link_telegram_id_commit(r)
    \/ \E r \in Requests : respond(r)

SpecLink == InitBot /\ [][NextLink]_vars

------------------------------------------------------------------------------
(* participant_facing.py: study_signup served by several workers at once.    *)
(* The handler is cut where it talks to the database: the lookup of the      *)
(* study, each turn of the loop that draws a link code, the INSERT of the    *)
(* enrollment with its commit, and make_pings.                               *)

\* what generate_non_confusable_code can return
GeneratedCodes == LinkCodes \cup {13, 14}

SignupCodes == {1, 2, 3}

SignupRequest(pc, study, study_pid, tz, telegram_link_code, enrollment, status) ==
    [pc |-> pc, op |-> "study_signup", study |-> study, study_pid |-> study_pid, tz |-> tz,
     telegram_link_code |-> telegram_link_code, enrollment |-> enrollment,
     status |-> status]

\* participant_facing.py:135-143
study_signup_lookup(r, signup_code, study_pid, tz) ==
    /\ web[r].pc = "idle"
    /\ \E study \in first({i \in DOMAIN studies : studies[i].code = signup_code}) :
           web' = [web EXCEPT ![r] =
               IF study = NULL
               THEN SignupRequest("done", NULL, study_pid, tz, NULL, NULL, 404)
               ELSE SignupRequest("generate", study, study_pid, tz, NULL, NULL, NULL)]
    /\ UNCHANGED <<noweb, mp, enrollments, pings>>

\* participant_facing.py:147-150: one turn of the loop; it is left with a code
\* that no enrollment had when the SELECT ran
study_signup_generate(r, code) ==
    /\ web[r].pc = "generate"
    /\ web' = [web EXCEPT ![r] =
           IF \E e \in DOMAIN enrollments : enrollments[e].telegram_link_code = code
           THEN @
           ELSE [@ EXCEPT !.pc = "insert", !.telegram_link_code = code]]
    /\ UNCHANGED <<noweb, mp, enrollments, pings>>

\* participant_facing.py:153-170: the INSERT and its commit.  study_pid is
\* nullable=False (models.py:28): without it the INSERT is rejected and the
\* answer is 500.  telegram_link_code has no unique constraint (models.py:22).
study_signup_insert(r) ==
    /\ web[r].pc = "insert"
    /\ Cardinality(DOMAIN enrollments) < MaxEnrollments
    /\ IF web[r].study_pid = NULL
       THEN /\ web' = [web EXCEPT ![r] = [@ EXCEPT !.pc = "done", !.status = 500]]
            /\ UNCHANGED enrollments
       ELSE LET id == Cardinality(DOMAIN enrollments) + 1
                row == [Enrollment(web[r].study, web[r].tz, clock \div SecondsPerDay) EXCEPT
                           !.study_pid = web[r].study_pid,
                           !.telegram_link_code = web[r].telegram_link_code,
                           !.telegram_link_code_expire_ts =
                               clock + TelegramLinkCodeExpiryDays * SecondsPerDay]
            IN /\ enrollments' = [i \in DOMAIN enrollments \cup {id} |->
                                     IF i = id THEN row ELSE enrollments[i]]
               /\ web' = [web EXCEPT ![r] = [@ EXCEPT !.pc = "pings", !.enrollment = id]]
    /\ UNCHANGED <<noweb, mp, pings>>

\* participant_facing.py:172-187: make_pings, then 500 when it returned None or
\* an empty list and 200 otherwise
study_signup_make_pings(r) ==
    /\ web[r].pc = "pings"
    /\ MakePingsEffect(web[r].enrollment, web[r].study)
    /\ web' = [web EXCEPT ![r] = [@ EXCEPT
           !.pc = "done",
           !.status = IF mp'.returned = "pings" /\ mp'.made # <<>> THEN 200 ELSE 500]]
    /\ UNCHANGED <<noweb, enrollments>>

\* two studies; study 1 has a ping template with one window; the two
\* enrollments of the database hold the link codes 11 and 12
InitSignup ==
    /\ InitQuiet
    /\ InitTables([InitRows EXCEPT
           !.enrollments[1].telegram_link_code = 11,
           !.enrollments[1].telegram_link_code_expire_ts = SecondsPerDay,
           !.enrollments[2].telegram_link_code = 12,
           !.enrollments[2].telegram_link_code_expire_ts = SecondsPerDay,
           !.templates[1].schedule = <<WInstant>>])

NextSignup ==
    \/ \E r \in Requests, signup_code \in SignupCodes, study_pid \in {1, NULL},
          tz \in {"UTC", "Mars/Olympus"} :
          study_signup_lookup(r, signup_code, study_pid, tz)
    \/ \E r \in Requests, code \in GeneratedCodes : study_signup_generate(r, code)
    \/ \E r \in Requests : study_signup_insert(r)
    \/ \E r \in Requests : study_signup_make_pings(r)
    \/ \E r \in Requests : respond(r)

SpecSignup == InitSignup /\ [][NextSignup]_vars

------------------------------------------------------------------------------
(* Claims about the sweeps, checked under Spec *)

Holding(s) == sw[s].pc # "idle"

\* sweeper s called its query with an explicit now, strictly after the instant t
CalledAfter(s, t) == Holding(s) /\ ~sw[s].used_default /\ sw[s].now > t

\* C1: under any interleaving of the sweepers, no ping is handed to delivery
\* more than once.
C1_NoDuplicateDelivery == \A p \in PingIds : handed[p] <= 1

\* a sweeper ran its query while another one held the lock on a due ping, and
\* left that ping alone
C1_Witness ==
    \E s \in Sweepers, o \in Sweepers :
        \E p \in sw[o].batch :
            /\ s # o
            /\ sw[o].pc = "send" /\ sw[s].pc = "send"
            /\ handed[p] = 1
            /\ CalledAfter(s, 0)
            /\ SendWhere(pings[p], sw[s].now)
            /\ p \notin sw[s].batch

\* C6: every ping get_pings_to_send(now) returns has
\* now - 15 minutes <= scheduled_ts <= now.
C6_WithinTolerance ==
    \A s \in Sweepers :
        sw[s].pc = "send" =>
            \A p \in sw[s].batch :
                /\ sw[s].now - AcceptableDelayMinutes * SecondsPerMinute
                       <= pings[p].scheduled_ts
                /\ pings[p].scheduled_ts <= sw[s].now

\* a ping is returned late, and another sweep leaves out a ping that is too late
C6_Witness ==
    \E s \in Sweepers, o \in Sweepers :
        /\ sw[s].pc = "send"
        /\ \E p \in sw[s].batch : pings[p].scheduled_ts < sw[s].now
        /\ sw[o].pc = "send" /\ ~sw[o].used_default
        /\ \E q \in 1..Len(pings) :
               /\ q \notin sw[o].batch
               /\ pings[q].sent_ts = NULL
               /\ pings[q].expire_ts = NULL
               /\ pings[q].scheduled_ts < sw[o].now - AcceptableDelayMinutes * SecondsPerMinute

\* C7: get_pings_to_send never returns a ping that is recorded as sent.
C7_NeverReturnsSent ==
    \A s \in Sweepers :
        sw[s].pc = "send" => \A p \in sw[s].batch : pings[p].sent_ts = NULL

\* a sweep that ran after a ping was recorded as sent, at a time the ping was
\* still within the tolerance, and did not return it
C7_Witness ==
    \E s \in Sweepers, p \in 1..Len(pings) :
        /\ sw[s].pc = "send"
        /\ pings[p].sent_ts # NULL
        /\ CalledAfter(s, pings[p].sent_ts)
        /\ SendWhereNoSentCheck(pings[p], sw[s].now)
        /\ p \notin sw[s].batch

\* C8: get_pings_to_send(now) and get_pings_for_reminder(now) never return an
\* expired ping: expire_ts is unset or expire_ts > now.
C8_NeverReturnsExpired ==
    \A s \in Sweepers :
        Holding(s) =>
            \A p \in sw[s].batch :
                pings[p].expire_ts = NULL \/ pings[p].expire_ts > sw[s].now

Expired(r, now) == r.expire_ts # NULL /\ r.expire_ts <= now

\* each query has left out a ping for the only reason that it had expired
C8_Witness ==
    \E s \in Sweepers, o \in Sweepers :
        /\ sw[s].pc = "send" /\ ~sw[s].used_default
        /\ \E p \in 1..Len(pings) :
               /\ SendWhereNoExpiry(pings[p], sw[s].now)
               /\ Expired(pings[p], sw[s].now)
               /\ p \notin sw[s].batch
        /\ sw[o].pc = "remind" /\ ~sw[o].used_default
        /\ \E q \in 1..Len(pings) :
               /\ pings[q].sent_ts # NULL /\ pings[q].sent_ts < sw[o].now
               /\ pings[q].reminder_sent_ts = NULL
               /\ pings[q].reminder_ts <= sw[o].now
               /\ Expired(pings[q], sw[o].now)
               /\ q \notin sw[o].batch

\* C9: a query called without now evaluates due-ness against the time of the
\* call: it returns every ping that is due (and not skipped) at that time.
C9_DefaultNowIsTimeOfCall ==
    \A s \in Sweepers :
        (Holding(s) /\ sw[s].used_default) => sw[s].missed_due = {}

\* C10: a query that runs while another sweeper's transaction is open returns
\* every due ping whose row that transaction has not locked.
C10_ReturnsRemainingUnlocked ==
    \A s \in Sweepers : Holding(s) => sw[s].missed_unlocked = {}

------------------------------------------------------------------------------
(* Claims about random_time, checked under SpecRandomTime *)

\* C2: for a window whose end is not before its start and a valid timezone,
\* the timestamp random_time returns lies between the window's start and end,
\* both taken as wall times in the participant's timezone.
C2_WithinWindowInTimezone ==
    (/\ rt.called
     /\ rt.tz \in DOMAIN TzDb
     /\ rt.result.kind = "ts")
    => LET zone == TzDb[rt.tz]
           lo == LocalInstant(rt.start_date + rt.w.start_day_num,
                              strptime(rt.w.start_time).tod, zone)
           hi == LocalInstant(rt.start_date + rt.w.end_day_num,
                              strptime(rt.w.end_time).tod, zone)
       IN lo <= rt.result.ts /\ rt.result.ts <= hi

------------------------------------------------------------------------------
(* Claims about make_pings, checked under SpecMakePings *)

\* the rows the last make_pings call added to table pings
NewRows == SubSeq(pings, mp.before + 1, Len(pings))

\* the last call was for an existing enrollment and study, and its loops ran
\* to their end: they built one ping for every window, at least one
BuiltEveryWindow ==
    /\ mp.called
    /\ mp.enrollment_id \in DOMAIN enrollments
    /\ mp.study_id \in DOMAIN studies
    /\ Len(mp.made) > 0
    /\ Len(mp.made) = Len(LoopItems(ping_templates(mp.study_id)))

C4_LatencyOffsets ==
    mp.called =>
        \A i \in 1..Len(mp.made) :
            LET d == mp.made[i]
                pt == templates[d.ping_template_id]
            IN /\ d.expire_ts = d.scheduled_ts + pt.expire_latency
               /\ d.reminder_ts = d.scheduled_ts + pt.reminder_latency

\* a call that created pings from two templates
C4_Witness ==
    /\ mp.called
    /\ \E i, j \in 1..Len(mp.made) :
           mp.made[i].ping_template_id # mp.made[j].ping_template_id

------------------------------------------------------------------------------
(* Claims about the soft deletes, checked under SpecDelete *)

Called(op) == last.called /\ last.op = op

\* C11: get_pings_to_send and get_pings_for_reminder never return a ping that
\* is soft-deleted, or whose ping template, enrollment or study is
\* soft-deleted, or whose enrollment has enrolled = False.
C11_NeverReturnsInactive ==
    (Called("get_pings_to_send") \/ Called("get_pings_for_reminder")) =>
        \A p \in last.result :
            /\ pings[p].deleted_at = NULL
            /\ templates[pings[p].ping_template_id].deleted_at = NULL
            /\ enrollments[pings[p].enrollment_id].deleted_at = NULL
            /\ studies[pings[p].study_id].deleted_at = NULL
            /\ enrollments[pings[p].enrollment_id].enrolled

\* get_pings_to_send has left out a due ping for the only reason that its
\* enrollment is no longer enrolled, while returning nothing soft-deleted
C11_Witness ==
    /\ Called("get_pings_to_send")
    /\ \E p \in DOMAIN pings :
          /\ pings[p].sent_ts = NULL
          /\ pings[p].scheduled_ts <= clock
          /\ pings[p].scheduled_ts >= clock - acceptable_delay
          /\ pings[p].deleted_at = NULL
          /\ templates[pings[p].ping_template_id].deleted_at = NULL
          /\ enrollments[pings[p].enrollment_id].deleted_at = NULL
          /\ studies[pings[p].study_id].deleted_at = NULL
          /\ ~enrollments[pings[p].enrollment_id].enrolled
          /\ p \notin last.result

\* the last call was `op` and it returned True
Succeeded(op) == Called(op) /\ last.result = TRUE

\* the row differs from `old` in nothing but deleted_at
SameButDeletedAt(row, old) ==
    /\ DOMAIN row = DOMAIN old
    /\ \A f \in DOMAIN row \ {"deleted_at"} : row[f] = old[f]

\* the row `id` is hidden from the default lookup, still there for
\* include_deleted=True, and carries a deletion timestamp and its old fields
MarkedNotRemoved(hidden, shown, id, table, old) ==
    /\ hidden = NULL
    /\ shown = id
    /\ table[id].deleted_at # NULL
    /\ SameButDeletedAt(table[id], old[id])

CascadedTo(table, old, Of(_)) ==
    /\ DOMAIN table = DOMAIN old
    /\ \A i \in DOMAIN table :
          IF Of(table[i]) THEN table[i].deleted_at # NULL ELSE table[i] = old[i]

\* C13: soft_delete_study(study_id) on an existing study cascades: afterwards
\* the study, every enrollment of the study, every ping of those enrollments,
\* every ping template of the study and every user-study link of the study
\* are soft-deleted, and no record belonging to another study is changed.
C13_StudyCascade ==
    Succeeded("soft_delete_study") =>
        LET study_id == last.args[1]
            OfStudy(row) == row.study_id = study_id
            OfEnrollmentOfStudy(ping) == enrollments[ping.enrollment_id].study_id = study_id
        IN /\ studies[study_id].deleted_at # NULL
           /\ \A o \in DOMAIN studies \ {study_id} : studies[o] = last.before.studies[o]
           /\ CascadedTo(enrollments, last.before.enrollments, OfStudy)
           /\ CascadedTo(pings, last.before.pings, OfEnrollmentOfStudy)
           /\ CascadedTo(templates, last.before.templates, OfStudy)
           /\ CascadedTo(user_studies, last.before.user_studies, OfStudy)
           /\ users = last.before.users
           /\ supports = last.before.supports

\* soft_delete_study has just deleted a study whose enrollment, ping, ping
\* template and user link were all active, next to another study with active
\* records
C13_Witness ==
    /\ Succeeded("soft_delete_study")
    /\ LET study_id == last.args[1]
           old == last.before
       IN /\ old.studies[study_id].deleted_at = NULL
          /\ \E e \in DOMAIN old.enrollments :
                /\ old.enrollments[e].study_id = study_id
                /\ old.enrollments[e].deleted_at = NULL
                /\ \E p \in DOMAIN old.pings :
                      old.pings[p].enrollment_id = e /\ old.pings[p].deleted_at = NULL
          /\ \E t \in DOMAIN old.templates :
                old.templates[t].study_id = study_id /\ old.templates[t].deleted_at = NULL
          /\ \E l \in DOMAIN old.user_studies :
                /\ old.user_studies[l].study_id = study_id
                /\ old.user_studies[l].deleted_at = NULL
          /\ \E p \in DOMAIN pings :
                pings[p].study_id # study_id /\ pings[p].deleted_at = NULL

\* C14: soft_delete_all_pings_for_enrollment(enrollment_id) returns True if
\* any pings were soft-deleted and False otherwise (in particular False when
\* the enrollment has no active pings).
C14_ReturnsWhetherAnyDeleted ==
    Called("soft_delete_all_pings_for_enrollment") =>
        (last.result = (\E p \in DOMAIN pings :
                           /\ last.before.pings[p].enrollment_id = last.args[1]
                           /\ last.before.pings[p].deleted_at = NULL
                           /\ pings[p].deleted_at # NULL))

\* the call `op`, given an id that is in no row of `table`, returned False and
\* changed nothing
MissingIdRejected(op, table) ==
    (Called(op) /\ last.args[1] \notin DOMAIN table) =>
        (last.result = FALSE /\ Tables = last.before)

\* soft_delete_user_study, given a pair with no link or with a soft-deleted
\* link, returned False and changed nothing
MissingLinkRejected ==
    (/\ Called("soft_delete_user_study")
     /\ \A l \in DOMAIN last.before.user_studies :
           \/ last.before.user_studies[l].user_id # last.args[1]
           \/ last.before.user_studies[l].study_id # last.args[2]
           \/ last.before.user_studies[l].deleted_at # NULL) =>
        (last.result = FALSE /\ Tables = last.before)

\* C15: every soft_delete_* function called with an id that matches no record
\* returns False and leaves every record unchanged; soft_delete_user_study
\* additionally returns False, with no change, when the user-study link is
\* already soft-deleted.
C15_MissingIdReturnsFalse ==
    /\ MissingIdRejected("soft_delete_user", last.before.users)
    /\ MissingIdRejected("soft_delete_study", last.before.studies)
    /\ MissingIdRejected("soft_delete_enrollment", last.before.enrollments)
    /\ MissingIdRejected("soft_delete_ping_template", last.before.templates)
    /\ MissingIdRejected("soft_delete_ping", last.before.pings)
    /\ MissingIdRejected("soft_delete_support_query", last.before.supports)
    /\ MissingLinkRejected
    /\ MissingIdRejected("soft_delete_all_pings_for_enrollment", last.before.enrollments)

------------------------------------------------------------------------------
(* Claims about the bot endpoints, checked under SpecBot *)

\* before the last call, link_telegram_id had already succeeded for `code`:
\* telegram_link_code_used is set nowhere but there (bot.py:82)
AlreadyLinked(code) ==
    /\ code # NULL
    /\ \E e \in DOMAIN last.before.enrollments :
          /\ last.before.enrollments[e].telegram_link_code = code
          /\ last.before.enrollments[e].telegram_link_code_used

------------------------------------------------------------------------------
(* Claims about the reminder sweeps, checked under SpecClick *)

------------------------------------------------------------------------------
(* Claims about the user-study links, checked under SpecUserStudy *)

\* C18: add_user_study(user_id, study_id, role) hard-deletes a pre-existing
\* user-study record for the pair only if that record is soft-deleted; an
\* existing active link for the pair is not removed.
C18_OnlySoftDeletedLinkRemoved ==
    Called("add_user_study") =>
        \A l \in DOMAIN last.before.user_studies :
            l \notin DOMAIN user_studies =>
                last.before.user_studies[l].deleted_at # NULL

------------------------------------------------------------------------------
(* More claims about the bot endpoints, checked under SpecBot *)

\* C19: after a successful unenroll(telegram_id) (response 200), the
\* participant with that telegram_id is unenrolled: no enrollment with that
\* telegram_id has enrolled = True, so none of that participant's pings is
\* returned by get_pings_to_send or get_pings_for_reminder.
C19_UnenrollStopsPings ==
    (Called("unenroll") /\ last.result = 200) =>
        \A e \in DOMAIN enrollments :
            enrollments[e].telegram_id = last.args[1] =>
                /\ ~enrollments[e].enrolled
                /\ \A p \in DOMAIN pings :
                      pings[p].enrollment_id = e =>
                          /\ p \notin get_pings_to_send(clock, 1)
                          /\ p \notin get_pings_for_reminder(clock, 1)

------------------------------------------------------------------------------
(* Claims about the updates, checked under SpecUpdate *)

\* the row `id` of the table `name` differs from what it was at most in the
\* fields of `whitelist` that `kwargs` names; all other rows and tables are as before
OnlyWhitelisted(name, id, whitelist, kwargs) ==
    LET old == last.before[name]
        new == Tables[name]
    IN /\ \A n \in DOMAIN Tables \ {name} : Tables[n] = last.before[n]
       /\ DOMAIN new = DOMAIN old
       /\ \A i \in DOMAIN new \ {id} : new[i] = old[i]
       /\ DOMAIN new[id] = DOMAIN old[id]
       /\ \A f \in DOMAIN new[id] \ (whitelist \cap DOMAIN kwargs) :
             new[id][f] = old[id][f]

\* the call `op` on the table `name`: None and no change on a missing id, only
\* whitelisted fields of the one row otherwise
UpdateContract(op, name, whitelist) ==
    Called(op) =>
        IF last.args[1] \notin DOMAIN last.before[name]
        THEN last.result = NULL /\ Tables = last.before
        ELSE /\ last.result = last.args[1]
             /\ OnlyWhitelisted(name, last.args[1], whitelist, last.args[2])

\* the same for update_user_study_role, which looks the row up by its pair
UpdateRoleContract ==
    Called("update_user_study_role") =>
        LET old == last.before.user_studies
            l == {i \in DOMAIN old : /\ old[i].user_id = last.args[1]
                                     /\ old[i].study_id = last.args[2]}
        IN IF l = {}
           THEN last.result = NULL /\ Tables = last.before
           ELSE /\ last.result \in l
                /\ OnlyWhitelisted("user_studies", last.result, {"role"}, last.args[3])

\* C20: every update_* function returns None and changes nothing when the id
\* matches no record; when the record exists it changes only the fields of its
\* whitelist that are present in kwargs and leaves every other field
\* (including id, deleted_at and a study's code) unchanged.
C20_UpdatesOnlyWhitelist ==
    /\ UpdateContract("update_user", "users", UserWhitelist \cup {"password"})
    /\ UpdateContract("update_study", "studies", StudyWhitelist)
    /\ UpdateRoleContract
    /\ UpdateContract("update_enrollment", "enrollments", EnrollmentWhitelist)
    /\ UpdateContract("update_ping_template", "templates", PingTemplateWhitelist)
    /\ UpdateContract("update_ping", "pings", PingWhitelist)
    /\ UpdateContract("update_support_query", "supports", SupportWhitelist)

\* update_study has changed the public name of a soft-deleted study and
\* ignored the code and the deleted_at it was given as well
C20_Witness ==
    /\ Called("update_study")
    /\ last.args[1] \in DOMAIN studies
    /\ {"code", "deleted_at", "public_name"} \subseteq DOMAIN last.args[2]
    /\ studies[last.args[1]].public_name = last.args[2].public_name
    /\ last.before.studies[last.args[1]].public_name # last.args[2].public_name
    /\ studies[last.args[1]].code # last.args[2].code
    /\ studies[last.args[1]].deleted_at # NULL
    /\ studies[last.args[1]].deleted_at = last.before.studies[last.args[1]].deleted_at

------------------------------------------------------------------------------
(* Claims about the failure path of make_pings, checked under SpecMakePings *)

\* the last make_pings call got past its lookups and then failed: the loops
\* stopped before the last window (random_time returned None or raised, or a
\* schedule key was missing), or a row it built is rejected by the INSERT
MakePingsFailed ==
    /\ mp.called
    /\ mp.enrollment_id \in DOMAIN enrollments
    /\ mp.study_id \in DOMAIN studies
    /\ ping_templates(mp.study_id) # <<>>
    /\ \/ Len(mp.made) < Len(LoopItems(ping_templates(mp.study_id)))
       \/ \E i \in 1..Len(mp.made) : ~PingInsertAccepted(Ping(mp.made[i]))

\* C23: make_pings is all-or-nothing: when creating any ping fails (unknown
\* timezone, a window whose end precedes its start, a missing schedule key, a
\* rejected insert), make_pings returns nothing and no ping of that call is
\* persisted.
C23_AllOrNothing ==
    MakePingsFailed => /\ mp.returned = "None"
                       /\ NewRows = <<>>

\* a call that had built the ping of its first window when the second window
\* (backwards, or without its 'end_time' key) made it fail
C23_Witness ==
    /\ MakePingsFailed
    /\ Len(mp.made) = 1
    /\ Len(LoopItems(ping_templates(mp.study_id))) = 2
    /\ LoopItems(ping_templates(mp.study_id))[2].w \in {WBackwards, WNoEndTime}
    /\ mp.returned = "None"
    /\ NewRows = <<>>

------------------------------------------------------------------------------
(* Claims about concurrent link requests, checked under SpecLink *)

LinkSucceeded(r) ==
    /\ web[r].pc = "done"
    /\ web[r].op = "link_telegram_id"
    /\ web[r].status = 200

\* C22: of concurrent link_telegram_id requests carrying the same link code
\* and different telegram ids, at most one answers 200, and once the requests
\* on that code have been answered the enrollment's telegram_id is the one of
\* the request that answered 200.
C22_AtMostOneLinkSucceeds ==
    \A r1 \in Requests :
        LinkSucceeded(r1) =>
            \A r2 \in Requests \ {r1} :
                (/\ web[r2].pc = "done"
                 /\ web[r2].op = "link_telegram_id"
                 /\ web[r2].telegram_link_code = web[r1].telegram_link_code
                 /\ web[r2].telegram_id # web[r1].telegram_id)
                => /\ web[r2].status # 200
                   /\ enrollments[web[r1].enrollment].telegram_id = web[r1].telegram_id

------------------------------------------------------------------------------
(* Claims about concurrent signups, checked under SpecSignup *)

\* C21: after any sequence and any interleaving of study_signup requests, no
\* two enrollments have the same telegram_link_code.
C21_LinkCodesUnique ==
    \A e1, e2 \in DOMAIN enrollments :
        (/\ e1 # e2
         /\ enrollments[e1].telegram_link_code # NULL)
        => enrollments[e1].telegram_link_code # enrollments[e2].telegram_link_code

====
